---- MODULE Spec2Model ----
(***************************************************************************)
(* Zenodo release publication: the programs of this repository             *)
(*   api        src/src/zenodo.py  (ZenodoAPI.full_upload_flow)            *)
(*   main       src/src/main.py    (main, driving ZenodoAPI)               *)
(*   uploader   src/.github/actions/zenodo-upload/zenodo_upload.py         *)
(*   downloader src/.github/zenodo-upload/zenodo_upload.py                 *)
(* run against one remote deposition service.  One action is one HTTP      *)
(* attempt together with the client code that handles its outcome.  The    *)
(* remote service is the environment: every attempt may succeed or fail    *)
(* with a 404, another 4xx, a 5xx or a transport error; a request takes    *)
(* effect on the remote state only when it succeeds.                       *)
(***************************************************************************)
EXTENDS Integers, Sequences, FiniteSets, TLC

VARIABLES
    client,      \* which program this process runs
    token,       \* ZENODO_TOKEN is set
    mdoi,        \* "doi" of the local metadata file (NoneVal: key absent)
    mver,        \* "version" of the local metadata file (NoneVal: key absent)
    artifacts,   \* the files to attach, in order
    onDisk,      \* the file names that exist in the working directory
    mlack,       \* what the local metadata file lacks among title, authors, license
    runs,        \* number of invocations started so far
    pc,          \* position of the current invocation
    attempt,     \* loop variable of _zenodo_operation
    respBound,   \* the local `response` of _zenodo_operation is bound
    lastRes,     \* outcome of the latest attempt of the current call
    concept,     \* concept_id found by the scan (0: None)
    matched,     \* deposition_id found by the scan (0: None)
    target,      \* deposition_id the run works on (0: not yet known)
    todo,        \* file ids still to delete (delete_files loop)
    upIdx,       \* number of artifacts already uploaded (upload loop)
    err,         \* the exception that left the workflow, or NoErr
    deps,        \* remote: deposition id -> record
    nextId,      \* remote: next fresh deposition id
    issued,      \* history: kinds of archive calls issued by this run
    lastCall,    \* history: kind of the latest archive call of this run
    stepsDone,   \* history: workflow steps this run completed
    raised,      \* history: <<call, outcome>> of the calls whose failure left the request wrapper
    pubCount,    \* history: successful publish requests per deposition
    mutPub,      \* history: a file/metadata mutation was sent to a Published deposition
    prev,        \* history: how the previous invocation ended
    rIndex,      \* SpecResolver: the remote index given to the scan
    rSel         \* SpecResolver: position the scan selected (0: none, -1: not run)

flowVars == <<runs, pc, attempt, respBound, lastRes, concept, matched, target,
              todo, upIdx, err>>
remoteVars == <<deps, nextId>>
histVars == <<issued, lastCall, stepsDone, raised, pubCount, mutPub, prev>>
cfgVars == <<client, token, mdoi, mver, artifacts, onDisk, mlack>>
resVars == <<rIndex, rSel>>
vars == <<cfgVars, flowVars, remoteVars, histVars, resVars>>

-----------------------------------------------------------------------------
(* Bounds *)
MaxRuns == 2       \* invocations per behaviour
MaxDep == 3        \* deposition ids the remote service can hand out
MaxIndex == 2      \* entries of the index in SpecResolver

(* Program constants *)
MAX_RETRIES == 3

NoneVal == "<None>"          \* Python None / an absent key
NoErr == [call |-> "none", exc |-> "none", res |-> "ok", attempts |-> 0]

Clients == {"api", "main", "uploader", "downloader"}
Results == {"ok", "404", "403", "500", "conn"}
HttpErr == {"404", "403", "500"}
ArtifactLists == {<<"a">>, <<"a", "b">>}
DoiVals == {NoneVal, "", "d1"}
VerVals == {NoneVal, "1", "v1"}
FileNameVals == {"a", "b"}
LackVals == {"none", "title", "authors", "license", "emptyauthors"}

DepIds == 1..MaxDep
Absent == [st |-> "Absent", concept |-> 0, files |-> {}, doi |-> NoneVal, version |-> NoneVal]

-----------------------------------------------------------------------------
(* Conversions *)

\* str(x) on the values the metadata can hold
Str(x) == IF x = NoneVal THEN "None" ELSE x

\* s.lstrip('v')
LStripV(s) == CASE s = "v1" -> "1"
                [] s = "v2" -> "2"
                [] s = "v"  -> ""
                [] OTHER    -> s

\* re.sub(r'^v', '', tag_name) followed by f"v{version}"
ZenodoVersion(tag) == "v" \o (CASE tag = "v1" -> "1" [] tag = "v2" -> "2" [] tag = "v" -> "" [] OTHER -> tag)

\* dict.get(key, default)
Get(x, default) == IF x = NoneVal THEN default ELSE x

\* the doi and version each client compares the index against
TargetDoi(c) == IF c \in {"api", "main"} THEN mdoi ELSE Get(mdoi, "")
TargetVersion(c) == CASE c \in {"api", "main"} -> Str(Get(mver, ""))
                      [] c = "uploader"       -> LStripV(mver)
                      [] OTHER                -> ZenodoVersion(mver)

-----------------------------------------------------------------------------
(* The local inputs                                                          *)

\* the keys of the mapping yaml.safe_load returns for the metadata file (an
\* empty authors list is a key that is present)
MetaKeys == ({"title", "authors", "license"} \ {mlack})
            \cup (IF mver = NoneVal THEN {} ELSE {"version"})

\* ZenodoAPI.__init__: the file is parsed and kept, no key is looked at
ApiLoadMetadata == "ok"

\* ZenodoUploader._parse_citation
required_fields == {"title", "authors", "license", "version"}
UploaderParseCitation == IF required_fields \subseteq MetaKeys THEN "ok" ELSE "ValueError"

\* PublicReleaseDownloader._parse_citation: every key is read with a default
DownloaderParseCitation == "ok"

\* zenodo_upload.main: [f for f in FILES.split() if os.path.exists(f)]
ValidFiles == SelectSeq(artifacts, LAMBDA f : f \in onDisk)

\* update_zenodo: the three artifacts, by the names download_artifact gives them
DownloaderArtifacts == <<"json", "gz", "whl">>


-----------------------------------------------------------------------------
(* The index scans.  An index is a sequence of entries                      *)
(* [id, concept, doi, version]; a scan returns the position of the entry    *)
(* it selects, 0 when it selects none.                                      *)

\* the first entry whose doi matches, whatever the versions
RECURSIVE DoiFirstScan(_, _, _, _)
DoiFirstScan(index, i, tdoi, tver) ==
    IF i > Len(index) THEN 0
    ELSE IF index[i].doi = tdoi THEN i
    ELSE DoiFirstScan(index, i + 1, tdoi, tver)

\* the first entry whose version matches, whatever the dois
RECURSIVE VersionScan(_, _, _, _)
VersionScan(index, i, tdoi, tver) ==
    IF i > Len(index) THEN 0
    ELSE IF Str(index[i].version) = tver THEN i
    ELSE VersionScan(index, i + 1, tdoi, tver)

\* a resolver that looks for a doi match in the whole index before any version match
DoiPriorityScan(index, i, tdoi, tver) ==
    IF DoiFirstScan(index, i, tdoi, tver) # 0
    THEN DoiFirstScan(index, i, tdoi, tver)
    ELSE VersionScan(index, i, tdoi, tver)

\* ZenodoAPI._find_existing_deposition, the for loop
RECURSIVE FindExistingDeposition(_, _, _, _)
FindExistingDeposition(index, i, tdoi, tver) ==
    IF i > Len(index) THEN 0
    ELSE IF index[i].doi = tdoi THEN i
    ELSE IF Str(index[i].version) = tver THEN i
    ELSE FindExistingDeposition(index, i + 1, tdoi, tver)

\* ZenodoUploader.update_zenodo, the for loop
RECURSIVE UploaderFind(_, _, _, _)
UploaderFind(index, i, tdoi, tver) ==
    IF i > Len(index) THEN 0
    ELSE IF index[i].doi = tdoi THEN i
    ELSE IF index[i].version = tver THEN i
    ELSE UploaderFind(index, i + 1, tdoi, tver)

\* PublicReleaseDownloader.update_zenodo, the for loop
RECURSIVE DownloaderFind(_, _, _, _)
DownloaderFind(index, i, tdoi, tver) ==
    IF i > Len(index) THEN 0
    ELSE IF index[i].doi = tdoi THEN i
    ELSE IF index[i].version = tver THEN i
    ELSE DownloaderFind(index, i + 1, tdoi, tver)

Scan(c, index) ==
    CASE c \in {"api", "main"} -> FindExistingDeposition(index, 1, TargetDoi(c), TargetVersion(c))
      [] c = "uploader"       -> UploaderFind(index, 1, TargetDoi(c), TargetVersion(c))
      [] OTHER                -> DownloaderFind(index, 1, TargetDoi(c), TargetVersion(c))

-----------------------------------------------------------------------------
(* The request wrappers: what one attempt's outcome leads to.               *)

\* ZenodoAPI._make_request: one request, every failure re-raised
MakeRequest(att, res, bound) == IF res = "ok" THEN "return" ELSE "raise"

\* ZenodoUploader._zenodo_operation: the handler reads response.text first
ZenodoOperationUploader(att, res, bound) ==
    IF res = "ok" THEN "return"
    ELSE IF res = "conn" /\ ~bound THEN "unbound"
    ELSE IF att < MAX_RETRIES - 1 THEN "retry"
    ELSE "raise"

\* PublicReleaseDownloader._zenodo_operation
ZenodoOperationDownloader(att, res, bound) ==
    IF res = "ok" THEN "return"
    ELSE IF att < MAX_RETRIES - 1 THEN "retry"
    ELSE "raise"

Wrapper(c, att, res, bound) ==
    CASE c \in {"api", "main"} -> MakeRequest(att, res, bound)
      [] c = "uploader"       -> ZenodoOperationUploader(att, res, bound)
      [] OTHER                -> ZenodoOperationDownloader(att, res, bound)

Exc(res, disp) == IF disp = "unbound" THEN "UnboundLocalError"
                  ELSE IF res = "conn" THEN "ConnectionError" ELSE "HTTPError"

-----------------------------------------------------------------------------
(* The remote service, as the requests of the clients see it.               *)

\* GET "": the depositions of the account, most recent first
RECURSIVE IndexFrom(_, _)
IndexFrom(d, i) ==
    IF i = 0 THEN <<>>
    ELSE (IF d[i].st = "Absent" THEN <<>>
          ELSE <<[id |-> i, concept |-> d[i].concept, doi |-> d[i].doi,
                  version |-> d[i].version]>>) \o IndexFrom(d, i - 1)

Index == IndexFrom(deps, MaxDep)

\* GET /{id}/files: the ids of the attached files, in ascending order
RECURSIVE IdSeq(_)
IdSeq(ids) ==
    IF ids = {} THEN <<>>
    ELSE LET m == CHOOSE x \in ids : \A y \in ids : x <= y
         IN <<m>> \o IdSeq(ids \ {m})

FileIds(d) == IdSeq({f.id : f \in deps[d].files})

FreshFileId(fs) == CHOOSE n \in 1..(Cardinality(fs) + 1) : \A f \in fs : f.id # n

\* the latest deposition of a concept
Latest(c) == CHOOSE d \in DepIds : /\ deps[d].st # "Absent" /\ deps[d].concept = c
                                   /\ \A e \in DepIds : (deps[e].st # "Absent" /\ deps[e].concept = c) => e <= d

ConceptExists(c) == \E d \in DepIds : deps[d].st # "Absent" /\ deps[d].concept = c

\* POST /{concept}/actions/newversion: the draft the answer names is the open
\* draft of the concept, or a fresh deposition that inherits the latest one
NewVersionIds(c) ==
    IF ~ConceptExists(c) THEN {}
    ELSE {d \in DepIds : deps[d].st = "Draft" /\ deps[d].concept = c}
         \cup (IF nextId <= MaxDep THEN {nextId} ELSE {})

AfterNewVersion(c, n) ==
    IF deps[n].st # "Absent" THEN deps
    ELSE [deps EXCEPT ![n] = [deps[Latest(c)] EXCEPT !.st = "Draft"]]

\* POST "": a new deposition, the first of its own concept
AfterCreate(n, doi, version) ==
    [deps EXCEPT ![n] = [st |-> "Draft", concept |-> n, files |-> {},
                         doi |-> doi, version |-> version]]

Writable(d) == d \in DepIds /\ deps[d].st = "Draft"

\* which outcomes the service can give to a request of kind k
Possible(k, res) ==
    res # "ok" \/
    CASE k = "newversion" -> NewVersionIds(concept) # {}
      [] k = "create"     -> nextId <= MaxDep
      [] k \in {"listfiles"} -> target \in DepIds /\ deps[target].st # "Absent"
      [] k \in {"delete", "upload", "put", "publish"} -> Writable(target)
      [] k = "deldep"     -> matched \in DepIds /\ deps[matched].st # "Absent"
      [] OTHER            -> TRUE

-----------------------------------------------------------------------------
(* Pieces shared by the request actions.                                    *)

Steps == {"resolve", "delete", "upload", "metadata", "publish"}
Ended == {"done", "failed", "skipped", "interrupted"}
MutKinds == {"delete", "upload", "put"}

\* one attempt of a call of kind k is sent
Attempt(k) ==
    /\ issued' = issued \cup {k}
    /\ lastCall' = k
    /\ mutPub' = (mutPub \/ (k \in MutKinds /\ target \in DepIds
                             /\ deps[target].st = "Published"))
    /\ UNCHANGED <<cfgVars, resVars, runs, prev>>

\* control reaches position p, where a new call (if any) starts
Begin(p) == pc' = p /\ attempt' = 0 /\ respBound' = FALSE /\ lastRes' = "ok"

\* _zenodo_operation sleeps and goes round its loop again
Retry(res) ==
    /\ attempt' = attempt + 1
    /\ respBound' = (respBound \/ res # "conn")
    /\ lastRes' = res
    /\ UNCHANGED <<pc, concept, matched, target, todo, upIdx, err>>
    /\ UNCHANGED <<remoteVars, stepsDone, raised, pubCount>>

\* the failure of call k leaves the workflow
Fail(k, res, disp) ==
    /\ Begin("failed")
    /\ err' = [call |-> k, exc |-> Exc(res, disp), res |-> res, attempts |-> attempt + 1]
    /\ raised' = raised \cup {<<k, res>>}
    /\ UNCHANGED <<concept, matched, target, todo, upIdx>>
    /\ UNCHANGED <<remoteVars, stepsDone, pubCount>>

LocalErr(exc) == [call |-> "none", exc |-> exc, res |-> "ok", attempts |-> 0]

\* an exception raised by the client's own code, before any request is sent,
\* leaves the workflow
LocalFail(exc) ==
    /\ Begin("failed")
    /\ err' = LocalErr(exc)
    /\ UNCHANGED <<cfgVars, resVars, runs, concept, matched, target, todo, upIdx>>
    /\ UNCHANGED <<remoteVars, histVars>>

RemoveFile(d, fid) == [deps EXCEPT ![d].files = {f \in @ : f.id # fid}]
AddFile(d, name) == [deps EXCEPT ![d].files = @ \cup {[id |-> FreshFileId(@), name |-> name]}]
\* PUT /{id}: the supplied keys are merged onto the stored metadata
AfterPut(d, keys, doi, version) ==
    [deps EXCEPT ![d].doi = IF "doi" \in keys THEN doi ELSE @,
                 ![d].version = IF "version" \in keys THEN version ELSE @]
Published(d) == [deps EXCEPT ![d].st = "Published"]

-----------------------------------------------------------------------------
(* ZenodoAPI (src/src/zenodo.py)                                            *)

\* full_upload_flow with publish_version called right after create_version
PublishFirstFlow(step) ==
    CASE step = "resolve"  -> "publish"
      [] step = "publish"  -> "listfiles"
      [] step = "delete"   -> "upload"
      [] step = "upload"   -> "put"
      [] OTHER             -> "done"

\* full_upload_flow: where control goes when a step has returned
FullUploadFlow(step) ==
    CASE step = "resolve"  -> "listfiles"
      [] step = "delete"   -> "upload"
      [] step = "upload"   -> "put"
      [] step = "metadata" -> "publish"
      [] OTHER             -> "done"

\* a handler that propagates the 404 like any other failure
NoFallbackHandler(res) == "raise"

\* create_version: the except clause around the newversion request
CreateVersionHandler(res) == IF res = "404" THEN "fallback" ELSE "raise"

\* update_metadata: the keys of new_metadata
NewMetadataKeys == {}

\* _find_existing_deposition: GET "" and the scan; any failure is logged and
\* answered by None
ApiList ==
    /\ client = "api" /\ pc = "list"
    /\ \E res \in Results :
        LET disp == MakeRequest(attempt, res, respBound)
            sel == Scan(client, Index)
        IN  /\ Possible("list", res)
            /\ Attempt("list")
            /\ UNCHANGED <<target, todo, upIdx, err, remoteVars, stepsDone, pubCount>>
            /\ IF disp = "return"
               THEN /\ concept' = (IF sel = 0 THEN 0 ELSE Index[sel].concept)
                    /\ matched' = (IF sel = 0 THEN 0 ELSE Index[sel].id)
                    /\ Begin(IF sel = 0 THEN "create" ELSE "newversion")
                    /\ UNCHANGED raised
               ELSE /\ concept' = 0 /\ matched' = 0
                    /\ Begin("create")
                    /\ raised' = raised \cup {<<"list", res>>}

\* create_version: POST /{concept_id}/actions/newversion
ApiNewVersion ==
    /\ client = "api" /\ pc = "newversion"
    /\ \E res \in Results :
        LET disp == MakeRequest(attempt, res, respBound)
        IN  /\ Possible("newversion", res)
            /\ Attempt("newversion")
            /\ CASE disp = "return" ->
                    \E n \in NewVersionIds(concept) :
                        /\ deps' = AfterNewVersion(concept, n)
                        /\ nextId' = (IF n = nextId THEN nextId + 1 ELSE nextId)
                        /\ target' = n
                        /\ stepsDone' = stepsDone \cup {"resolve"}
                        /\ Begin(FullUploadFlow("resolve"))
                        /\ UNCHANGED <<concept, matched, todo, upIdx, err, raised, pubCount>>
                 [] disp = "raise" /\ res \in HttpErr /\ CreateVersionHandler(res) = "fallback" ->
                        /\ Begin("create")
                        /\ raised' = raised \cup {<<"newversion", res>>}
                        /\ UNCHANGED <<concept, matched, target, todo, upIdx, err>>
                        /\ UNCHANGED <<remoteVars, stepsDone, pubCount>>
                 [] OTHER -> Fail("newversion", res, disp)

\* _create_new_deposition: self.metadata["title"], then POST ""
ApiCreate ==
    /\ client = "api" /\ pc = "create"
    /\ IF "title" \notin MetaKeys THEN LocalFail("KeyError") ELSE
       \E res \in Results :
        LET disp == MakeRequest(attempt, res, respBound)
        IN  /\ Possible("create", res)
            /\ Attempt("create")
            /\ IF disp = "return"
               THEN /\ deps' = AfterCreate(nextId, NoneVal, Get(mver, "1.0.0"))
                    /\ nextId' = nextId + 1
                    /\ target' = nextId
                    /\ stepsDone' = stepsDone \cup {"resolve"}
                    /\ Begin(FullUploadFlow("resolve"))
                    /\ UNCHANGED <<concept, matched, todo, upIdx, err, raised, pubCount>>
               ELSE Fail("create", res, disp)

\* delete_files: GET /{id}/files
ApiListFiles ==
    /\ client = "api" /\ pc = "listfiles"
    /\ \E res \in Results :
        LET disp == MakeRequest(attempt, res, respBound)
        IN  /\ Possible("listfiles", res)
            /\ Attempt("listfiles")
            /\ IF disp = "return"
               THEN /\ todo' = FileIds(target)
                    /\ IF FileIds(target) = <<>>
                       THEN /\ stepsDone' = stepsDone \cup {"delete"}
                            /\ Begin(FullUploadFlow("delete"))
                       ELSE /\ Begin("delete") /\ UNCHANGED stepsDone
                    /\ UNCHANGED <<concept, matched, target, upIdx, err, remoteVars, raised, pubCount>>
               ELSE Fail("listfiles", res, disp)

\* delete_files: DELETE /{id}/files/{file_id}, once per listed file
ApiDeleteFile ==
    /\ client = "api" /\ pc = "delete"
    /\ \E res \in Results :
        LET disp == MakeRequest(attempt, res, respBound)
        IN  /\ Possible("delete", res)
            /\ Attempt("delete")
            /\ IF disp = "return"
               THEN /\ deps' = RemoveFile(target, Head(todo))
                    /\ todo' = Tail(todo)
                    /\ IF Tail(todo) = <<>>
                       THEN /\ stepsDone' = stepsDone \cup {"delete"}
                            /\ Begin(FullUploadFlow("delete"))
                       ELSE /\ Begin("delete") /\ UNCHANGED stepsDone
                    /\ UNCHANGED <<concept, matched, target, upIdx, err, nextId, raised, pubCount>>
               ELSE Fail("delete", res, disp)

\* upload_files: open(file_path), then POST /{id}/files, once per path in the
\* given order
ApiUpload ==
    /\ client = "api" /\ pc = "upload"
    /\ IF artifacts[upIdx + 1] \notin onDisk THEN LocalFail("FileNotFoundError") ELSE
       \E res \in Results :
        LET disp == MakeRequest(attempt, res, respBound)
        IN  /\ Possible("upload", res)
            /\ Attempt("upload")
            /\ IF disp = "return"
               THEN /\ deps' = AddFile(target, artifacts[upIdx + 1])
                    /\ upIdx' = upIdx + 1
                    /\ IF upIdx + 1 = Len(artifacts)
                       THEN /\ stepsDone' = stepsDone \cup {"upload"}
                            /\ Begin(FullUploadFlow("upload"))
                       ELSE /\ Begin("upload") /\ UNCHANGED stepsDone
                    /\ UNCHANGED <<concept, matched, target, todo, err, nextId, raised, pubCount>>
               ELSE Fail("upload", res, disp)

\* update_metadata: PUT /{id} with {"metadata": new_metadata}
ApiUpdateMetadata ==
    /\ client = "api" /\ pc = "put"
    /\ \E res \in Results :
        LET disp == MakeRequest(attempt, res, respBound)
        IN  /\ Possible("put", res)
            /\ Attempt("put")
            /\ IF disp = "return"
               THEN /\ deps' = AfterPut(target, NewMetadataKeys, mdoi, mver)
                    /\ stepsDone' = stepsDone \cup {"metadata"}
                    /\ Begin(FullUploadFlow("metadata"))
                    /\ UNCHANGED <<concept, matched, target, todo, upIdx, err, nextId, raised, pubCount>>
               ELSE Fail("put", res, disp)

\* publish_version: POST /{id}/actions/publish
ApiPublish ==
    /\ client = "api" /\ pc = "publish"
    /\ \E res \in Results :
        LET disp == MakeRequest(attempt, res, respBound)
        IN  /\ Possible("publish", res)
            /\ Attempt("publish")
            /\ IF disp = "return"
               THEN /\ deps' = Published(target)
                    /\ pubCount' = [pubCount EXCEPT ![target] = @ + 1]
                    /\ stepsDone' = stepsDone \cup {"publish"}
                    /\ Begin(FullUploadFlow("publish"))
                    /\ UNCHANGED <<concept, matched, target, todo, upIdx, err, nextId, raised>>
               ELSE Fail("publish", res, disp)

\* main.py: api.create_version(concept_id) on a method that takes no argument
MainCreateVersion ==
    /\ client = "main" /\ pc = "main"
    /\ Begin("failed")
    /\ err' = [call |-> "none", exc |-> "TypeError", res |-> "ok", attempts |-> 0]
    /\ UNCHANGED <<cfgVars, resVars, runs, concept, matched, target, todo, upIdx>>
    /\ UNCHANGED <<remoteVars, histVars>>

-----------------------------------------------------------------------------
(* ZenodoUploader (src/.github/actions/zenodo-upload/zenodo_upload.py)      *)

\* update_zenodo: the except clause around the newversion request
UploaderVersionHandler(res) == IF res = "404" THEN "fallback" ELSE "raise"

\* update_zenodo: GET "" and the scan
UploaderList ==
    /\ client = "uploader" /\ pc = "list"
    /\ \E res \in Results :
        LET disp == ZenodoOperationUploader(attempt, res, respBound)
        IN  /\ Possible("list", res)
            /\ Attempt("list")
            /\ CASE disp = "return" ->
                        LET sel == Scan(client, Index) IN
                        /\ concept' = (IF sel = 0 THEN 0 ELSE Index[sel].concept)
                        /\ matched' = (IF sel = 0 THEN 0 ELSE Index[sel].id)
                        /\ Begin(IF sel = 0 THEN "create" ELSE "newversion")
                        /\ UNCHANGED <<target, todo, upIdx, err, remoteVars, stepsDone, raised, pubCount>>
                 [] disp = "retry" -> Retry(res)
                 [] OTHER -> Fail("list", res, disp)

\* update_zenodo: POST /{concept_id}/actions/newversion, links.latest_draft
UploaderNewVersion ==
    /\ client = "uploader" /\ pc = "newversion"
    /\ \E res \in Results :
        LET disp == ZenodoOperationUploader(attempt, res, respBound)
        IN  /\ Possible("newversion", res)
            /\ Attempt("newversion")
            /\ CASE disp = "return" ->
                    \E n \in NewVersionIds(concept) :
                        /\ deps' = AfterNewVersion(concept, n)
                        /\ nextId' = (IF n = nextId THEN nextId + 1 ELSE nextId)
                        /\ target' = n
                        /\ stepsDone' = stepsDone \cup {"resolve"}
                        /\ Begin("upload")
                        /\ UNCHANGED <<concept, matched, todo, upIdx, err, raised, pubCount>>
                 [] disp = "retry" -> Retry(res)
                 [] disp = "raise" /\ res \in HttpErr /\ UploaderVersionHandler(res) = "fallback" ->
                        /\ Begin("create")
                        /\ raised' = raised \cup {<<"newversion", res>>}
                        /\ UNCHANGED <<concept, matched, target, todo, upIdx, err>>
                        /\ UNCHANGED <<remoteVars, stepsDone, pubCount>>
                 [] OTHER -> Fail("newversion", res, disp)

\* update_zenodo: POST "" with deposition_data
UploaderCreate ==
    /\ client = "uploader" /\ pc = "create"
    /\ \E res \in Results :
        LET disp == ZenodoOperationUploader(attempt, res, respBound)
        IN  /\ Possible("create", res)
            /\ Attempt("create")
            /\ CASE disp = "return" ->
                        /\ deps' = AfterCreate(nextId, TargetDoi(client), TargetVersion(client))
                        /\ nextId' = nextId + 1
                        /\ target' = nextId
                        /\ concept' = nextId
                        /\ stepsDone' = stepsDone \cup {"resolve"}
                        /\ Begin("upload")
                        /\ UNCHANGED <<matched, todo, upIdx, err, raised, pubCount>>
                 [] disp = "retry" -> Retry(res)
                 [] OTHER -> Fail("create", res, disp)

\* update_zenodo: POST /{deposition_id}/files, once per artifact
UploaderUpload ==
    /\ client = "uploader" /\ pc = "upload"
    /\ \E res \in Results :
        LET disp == ZenodoOperationUploader(attempt, res, respBound)
        IN  /\ Possible("upload", res)
            /\ Attempt("upload")
            /\ CASE disp = "return" ->
                        /\ deps' = AddFile(target, ValidFiles[upIdx + 1])
                        /\ upIdx' = upIdx + 1
                        /\ IF upIdx + 1 = Len(ValidFiles)
                           THEN /\ stepsDone' = stepsDone \cup {"upload"}
                                /\ Begin("publish")
                           ELSE /\ Begin("upload") /\ UNCHANGED stepsDone
                        /\ UNCHANGED <<concept, matched, target, todo, err, nextId, raised, pubCount>>
                 [] disp = "retry" -> Retry(res)
                 [] OTHER -> Fail("upload", res, disp)

\* update_zenodo: POST /{deposition_id}/actions/publish
UploaderPublish ==
    /\ client = "uploader" /\ pc = "publish"
    /\ \E res \in Results :
        LET disp == ZenodoOperationUploader(attempt, res, respBound)
        IN  /\ Possible("publish", res)
            /\ Attempt("publish")
            /\ CASE disp = "return" ->
                        /\ deps' = Published(target)
                        /\ pubCount' = [pubCount EXCEPT ![target] = @ + 1]
                        /\ stepsDone' = stepsDone \cup {"publish"}
                        /\ Begin("done")
                        /\ UNCHANGED <<concept, matched, target, todo, upIdx, err, nextId, raised>>
                 [] disp = "retry" -> Retry(res)
                 [] OTHER -> Fail("publish", res, disp)

-----------------------------------------------------------------------------
(* PublicReleaseDownloader (src/.github/zenodo-upload/zenodo_upload.py)     *)

\* a program that creates the replacement whatever the scan found
CreateWithoutDelete(sel) == "create"

\* update_zenodo: `if deposition_id:` after the scan
DownloaderAfterScan(sel) == IF sel = 0 THEN "create" ELSE "deldep"

\* update_zenodo: GET ZENODO_API and the scan
DownloaderList ==
    /\ client = "downloader" /\ pc = "list"
    /\ \E res \in Results :
        LET disp == ZenodoOperationDownloader(attempt, res, respBound)
        IN  /\ Possible("list", res)
            /\ Attempt("list")
            /\ CASE disp = "return" ->
                        LET sel == Scan(client, Index) IN
                        /\ concept' = (IF sel = 0 THEN 0 ELSE Index[sel].concept)
                        /\ matched' = (IF sel = 0 THEN 0 ELSE Index[sel].id)
                        /\ Begin(DownloaderAfterScan(sel))
                        /\ UNCHANGED <<target, todo, upIdx, err, remoteVars, stepsDone, raised, pubCount>>
                 [] disp = "retry" -> Retry(res)
                 [] OTHER -> Fail("list", res, disp)

\* update_zenodo: DELETE ZENODO_API/{deposition_id} of the matched entry
DownloaderDeleteDeposition ==
    /\ client = "downloader" /\ pc = "deldep"
    /\ \E res \in Results :
        LET disp == ZenodoOperationDownloader(attempt, res, respBound)
        IN  /\ Possible("deldep", res)
            /\ Attempt("deldep")
            /\ CASE disp = "return" ->
                        /\ deps' = [deps EXCEPT ![matched] = Absent]
                        /\ Begin("create")
                        /\ UNCHANGED <<concept, matched, target, todo, upIdx, err, nextId, stepsDone, raised, pubCount>>
                 [] disp = "retry" -> Retry(res)
                 [] OTHER -> Fail("deldep", res, disp)

\* update_zenodo: POST ZENODO_API with deposition_data
DownloaderCreate ==
    /\ client = "downloader" /\ pc = "create"
    /\ \E res \in Results :
        LET disp == ZenodoOperationDownloader(attempt, res, respBound)
        IN  /\ Possible("create", res)
            /\ Attempt("create")
            /\ CASE disp = "return" ->
                        /\ deps' = AfterCreate(nextId, TargetDoi(client), TargetVersion(client))
                        /\ nextId' = nextId + 1
                        /\ target' = nextId
                        /\ stepsDone' = stepsDone \cup {"resolve"}
                        /\ Begin("download")
                        /\ UNCHANGED <<concept, matched, todo, upIdx, err, raised, pubCount>>
                 [] disp = "retry" -> Retry(res)
                 [] OTHER -> Fail("create", res, disp)

\* update_zenodo: download_artifact(artifact) before each upload
DownloaderDownload ==
    /\ client = "downloader" /\ pc = "download"
    /\ \E ok \in BOOLEAN :
        /\ IF ok THEN Begin("upload") /\ UNCHANGED err
           ELSE /\ Begin("failed")
                /\ err' = [call |-> "download", exc |-> "RequestException", res |-> "conn", attempts |-> 1]
        /\ UNCHANGED <<cfgVars, resVars, runs, concept, matched, target, todo, upIdx>>
        /\ UNCHANGED <<remoteVars, histVars>>

\* update_zenodo: POST ZENODO_API/{deposition_id}/files, then os.remove
DownloaderUpload ==
    /\ client = "downloader" /\ pc = "upload"
    /\ \E res \in Results :
        LET disp == ZenodoOperationDownloader(attempt, res, respBound)
        IN  /\ Possible("upload", res)
            /\ Attempt("upload")
            /\ CASE disp = "return" ->
                        /\ deps' = AddFile(target, DownloaderArtifacts[upIdx + 1])
                        /\ upIdx' = upIdx + 1
                        /\ IF upIdx + 1 = Len(DownloaderArtifacts)
                           THEN /\ stepsDone' = stepsDone \cup {"upload"}
                                /\ Begin("publish")
                           ELSE /\ Begin("download") /\ UNCHANGED stepsDone
                        /\ UNCHANGED <<concept, matched, target, todo, err, nextId, raised, pubCount>>
                 [] disp = "retry" -> Retry(res)
                 [] OTHER -> Fail("upload", res, disp)

\* update_zenodo: POST ZENODO_API/{deposition_id}/actions/publish
DownloaderPublish ==
    /\ client = "downloader" /\ pc = "publish"
    /\ \E res \in Results :
        LET disp == ZenodoOperationDownloader(attempt, res, respBound)
        IN  /\ Possible("publish", res)
            /\ Attempt("publish")
            /\ CASE disp = "return" ->
                        /\ deps' = Published(target)
                        /\ pubCount' = [pubCount EXCEPT ![target] = @ + 1]
                        /\ stepsDone' = stepsDone \cup {"publish"}
                        /\ Begin("done")
                        /\ UNCHANGED <<concept, matched, target, todo, upIdx, err, nextId, raised>>
                 [] disp = "retry" -> Retry(res)
                 [] OTHER -> Fail("publish", res, disp)

-----------------------------------------------------------------------------
(* Invocations                                                               *)

\* a new invocation of the program starts at position p
Start(p, e) ==
    /\ pc \in {"idle"} \cup Ended
    /\ runs < MaxRuns
    /\ runs' = runs + 1
    /\ prev' = [how |-> pc, target |-> target, steps |-> stepsDone]
    /\ Begin(p)
    /\ concept' = 0 /\ matched' = 0 /\ target' = 0 /\ todo' = <<>> /\ upIdx' = 0
    /\ err' = e
    /\ issued' = {} /\ lastCall' = "none" /\ stepsDone' = {} /\ raised' = {}
    /\ UNCHANGED <<cfgVars, resVars, remoteVars, pubCount, mutPub>>

\* a caller constructs ZenodoAPI and calls full_upload_flow
StartApi ==
    /\ client = "api"
    /\ IF ApiLoadMetadata # "ok" THEN Start("failed", LocalErr(ApiLoadMetadata))
       ELSE Start("list", NoErr)

\* main.py: the environment is read and ZenodoAPI constructed
StartMain == client = "main" /\ Start("main", NoErr)

\* zenodo_upload.main: ZenodoUploader() parses CITATION.cff, main returns when
\* no named file exists, then update_zenodo returns at once without a token
StartUploader ==
    /\ client = "uploader"
    /\ IF UploaderParseCitation # "ok" THEN Start("failed", LocalErr(UploaderParseCitation))
       ELSE IF ValidFiles = <<>> THEN Start("skipped", NoErr)
       ELSE IF ~token THEN Start("skipped", NoErr)
       ELSE Start("list", NoErr)

\* zenodo_upload.main: the latest release is looked up and its artifacts
\* downloaded, then update_zenodo returns at once without a token and parses
\* CITATION.cff with one
StartDownloader ==
    /\ client = "downloader"
    /\ \E ok \in BOOLEAN :
        IF mver = NoneVal THEN Start("failed", LocalErr("KeyError"))
        ELSE IF ~ok THEN Start("failed", LocalErr("RequestException"))
        ELSE IF ~token THEN Start("skipped", NoErr)
        ELSE IF DownloaderParseCitation # "ok" THEN Start("failed", LocalErr(DownloaderParseCitation))
        ELSE Start("list", NoErr)

\* the process is terminated in the middle of an invocation
Interrupt ==
    /\ pc \notin {"idle"} \cup Ended
    /\ Begin("interrupted")
    /\ UNCHANGED <<cfgVars, resVars, runs, concept, matched, target, todo, upIdx, err>>
    /\ UNCHANGED <<remoteVars, histVars>>

-----------------------------------------------------------------------------
(* The workflow specification                                                *)

FlowDois == {NoneVal, "d1"}
FlowVers == {NoneVal, "1"}

FlowLacks(c) == CASE c = "uploader"            -> LackVals
                  [] c \in {"api", "downloader"} -> {"none", "title"}
                  [] OTHER                     -> {"none"}

OldDeposition(doi, version) ==
    [st |-> "Published", concept |-> 1, files |-> {[id |-> 1, name |-> "old"]},
     doi |-> doi, version |-> version]

InitRemotes ==
    {[d \in DepIds |-> Absent]}
    \cup {[d \in DepIds |-> IF d = 1 THEN OldDeposition(doi, "1") ELSE Absent] :
            doi \in FlowDois}

Init ==
    /\ client \in Clients
    /\ token \in (IF client \in {"uploader", "downloader"} THEN BOOLEAN ELSE {TRUE})
    /\ mdoi \in FlowDois
    /\ mver \in FlowVers
    /\ artifacts \in (IF client \in {"api", "uploader"} THEN ArtifactLists ELSE {<<"a">>})
    /\ onDisk \in (IF client \in {"api", "uploader"} THEN {FileNameVals, {"b"}} ELSE {FileNameVals})
    /\ mlack \in (IF artifacts = <<"a">> /\ onDisk = FileNameVals THEN FlowLacks(client) ELSE {"none"})
    /\ runs = 0 /\ pc = "idle" /\ attempt = 0 /\ respBound = FALSE /\ lastRes = "ok"
    /\ concept = 0 /\ matched = 0 /\ target = 0 /\ todo = <<>> /\ upIdx = 0
    /\ err = NoErr
    /\ deps \in InitRemotes
    /\ nextId = (IF deps[1].st = "Absent" THEN 1 ELSE 2)
    /\ issued = {} /\ lastCall = "none" /\ stepsDone = {} /\ raised = {}
    /\ pubCount = [d \in DepIds |-> IF deps[d].st = "Published" THEN 1 ELSE 0]
    /\ mutPub = FALSE
    /\ prev = [how |-> "idle", target |-> 0, steps |-> {}]
    /\ rIndex = <<>> /\ rSel = -1

Next ==
    \/ StartApi \/ StartMain \/ StartUploader \/ StartDownloader \/ Interrupt
    \/ ApiList \/ ApiNewVersion \/ ApiCreate \/ ApiListFiles \/ ApiDeleteFile
    \/ ApiUpload \/ ApiUpdateMetadata \/ ApiPublish \/ MainCreateVersion
    \/ UploaderList \/ UploaderNewVersion \/ UploaderCreate \/ UploaderUpload
    \/ UploaderPublish
    \/ DownloaderList \/ DownloaderDeleteDeposition \/ DownloaderCreate
    \/ DownloaderDownload \/ DownloaderUpload \/ DownloaderPublish

Spec == Init /\ [][Next]_vars

-----------------------------------------------------------------------------
(* The resolver on its own: the scan of each client applied to every index  *)
(* of at most MaxIndex entries.                                             *)

Entries == [id : {0}, concept : {0}, doi : DoiVals, version : VerVals]

Indexes ==
    UNION {{[i \in 1..n |-> [f[i] EXCEPT !.id = i, !.concept = i]] : f \in [1..n -> Entries]} :
             n \in 0..MaxIndex}

InitResolver ==
    /\ client \in Clients \ {"main"}
    /\ token = TRUE
    /\ mdoi \in DoiVals
    /\ mver \in (IF client = "api" THEN VerVals ELSE VerVals \ {NoneVal})
    /\ artifacts = <<"a">> /\ onDisk = FileNameVals /\ mlack = "none"
    /\ runs = 0 /\ pc = "idle" /\ attempt = 0 /\ respBound = FALSE /\ lastRes = "ok"
    /\ concept = 0 /\ matched = 0 /\ target = 0 /\ todo = <<>> /\ upIdx = 0
    /\ err = NoErr
    /\ deps = [d \in DepIds |-> Absent]
    /\ nextId = 1
    /\ issued = {} /\ lastCall = "none" /\ stepsDone = {} /\ raised = {}
    /\ pubCount = [d \in DepIds |-> 0]
    /\ mutPub = FALSE
    /\ prev = [how |-> "idle", target |-> 0, steps |-> {}]
    /\ rIndex \in Indexes
    /\ rSel = -1

\* the scan of the client runs over the index
Resolve ==
    /\ rSel = -1
    /\ rSel' = Scan(client, rIndex)
    /\ UNCHANGED <<cfgVars, flowVars, remoteVars, histVars, rIndex>>

NextResolver == Resolve

SpecResolver == InitResolver /\ [][NextResolver]_vars

-----------------------------------------------------------------------------
(* Properties                                                                *)

StepOf(k) == CASE k \in {"list", "newversion", "create"} -> "resolve"
               [] k \in {"listfiles", "delete"}          -> "delete"
               [] k = "upload"                           -> "upload"
               [] k = "put"                              -> "metadata"
               [] k = "publish"                          -> "publish"
               [] OTHER                                  -> "none"

Rank(s) == CASE s = "resolve"  -> 1
             [] s = "delete"   -> 2
             [] s = "upload"   -> 3
             [] s = "metadata" -> 4
             [] s = "publish"  -> 5
             [] OTHER          -> 0

\* the calls of a run follow the order of the steps: a call of a step is issued
\* only when every earlier step has completed, the calls never go back to an
\* earlier step, and nothing is called after publish
CallsInStepOrder ==
    /\ \A k \in issued : \A s \in Steps :
           Rank(s) < Rank(StepOf(k)) => s \in stepsDone
    /\ \A k \in issued : Rank(StepOf(k)) <= Rank(StepOf(lastCall))
    /\ ("publish" \in stepsDone => lastCall = "publish")

\* C1: every run of full_upload_flow and of main issues its archive calls in the
\* order resolve, delete, upload, metadata, publish, each step after the
\* previous one completed, and a run that no failed archive call stopped has
\* gone through the five steps, publish being its last call.
C1_RunsStepsInOrder ==
    client \in {"api", "main"} =>
        /\ CallsInStepOrder
        /\ ((pc = "done" \/ (pc = "failed" /\ err.exc = "TypeError"))
                => (stepsDone = Steps /\ lastCall = "publish"))

\* the part of C1 that is about full_upload_flow alone
FullUploadFlowOrder ==
    client = "api" =>
        /\ CallsInStepOrder
        /\ (pc = "done" => (stepsDone = Steps /\ lastCall = "publish"))

\* C2: once an archive call has failed (the newversion call, whose 404 is
\* handled by the resolver, aside) the run has failed with that failure and that
\* call is the last one issued; a failed listing is followed by no other call.
C2_FailureAborts ==
    \A r \in raised :
        r[1] # "newversion" =>
            /\ pc = "failed" /\ err.call = r[1]
            /\ lastCall = r[1]
            /\ (r[1] = "list" => issued = {"list"})

EarlierSteps(c) == IF c = "api" THEN {"resolve", "delete", "upload", "metadata"}
                   ELSE {"resolve", "upload"}

C3_State ==
    /\ \A d \in DepIds : pubCount[d] <= 1 /\ (deps[d].st = "Published" => pubCount[d] = 1)
    /\ ~mutPub
    /\ (target # 0 /\ "publish" \notin stepsDone => deps[target].st = "Draft")

C3_Step ==
    \A d \in DepIds :
        (deps[d].st # "Published" /\ deps'[d].st = "Published") =>
            /\ pc = "publish" /\ target = d
            /\ EarlierSteps(client) \subseteq stepsDone
            /\ "publish" \in stepsDone' /\ pc' = "done"

\* C3: a deposition becomes Published only through the publish call of a run
\* whose earlier steps all completed, and at most once; while a run has not
\* completed its publish call its target is a Draft, however the run ends; no
\* file or metadata mutation is sent to a Published deposition.
C3_PublishedOnlyByCompletedRun == [](C3_State) /\ [][C3_Step]_vars

C3_Witness ==
    /\ client \in {"api", "uploader"} /\ runs = 2
    /\ prev.how \in {"failed", "interrupted"} /\ prev.target # 0
    /\ "publish" \notin prev.steps
    /\ deps[prev.target].st = "Draft"
    /\ pc = "done" /\ deps[target].st = "Published"

-----------------------------------------------------------------------------
(* Properties of the resolver                                                *)

NonEmptyDoi == TargetDoi(client) \notin {NoneVal, ""}
DoiMatch(i) == rIndex[i].doi = TargetDoi(client)
VersionMatch(i) ==
    IF client = "api" THEN Str(rIndex[i].version) = TargetVersion(client)
    ELSE rIndex[i].version = TargetVersion(client)
First(P(_)) == IF \E i \in 1..Len(rIndex) : P(i)
               THEN CHOOSE i \in 1..Len(rIndex) : P(i) /\ \A j \in 1..(i - 1) : ~P(j)
               ELSE 0
EitherMatch(i) == DoiMatch(i) \/ VersionMatch(i)

C5_EmptyDoiSelectsByVersion ==
    (rSel >= 0 /\ mdoi \in {NoneVal, ""}) => rSel = First(VersionMatch)

-----------------------------------------------------------------------------
(* Properties of the request handling                                        *)

\* C6: a newversion call that fails with a 404 is followed by create_deposition
\* (its request, or the KeyError of building the request from a metadata file
\* without title) and its failure never leaves the workflow; a newversion call that fails in any
\* other way fails the run with that failure and no create_deposition is issued.
C6_FallbackOn404Only ==
    \A r \in raised :
        r[1] = "newversion" =>
            IF r[2] = "404"
            THEN /\ ~(pc = "failed" /\ err.call = "newversion")
                 /\ \/ pc \in {"create", "interrupted"} \/ "create" \in issued
                    \/ pc = "failed" /\ err.exc = "KeyError"
                 /\ (target # 0 => deps[target].concept = target)
            ELSE /\ pc = "failed" /\ err.call = "newversion" /\ err.res = r[2]
                 /\ "create" \notin issued
                 /\ target = 0

C6_Witness ==
    /\ <<"newversion", "404">> \in raised
    /\ pc = "done" /\ target # 0 /\ "create" \in issued
    /\ deps[target].st = "Published"

\* C7: a call that failed for good with a transport failure or a 5xx was
\* attempted MAX_RETRIES times.
C7_ThreeAttempts ==
    \A r \in raised :
        (r[2] \in {"500", "conn"} /\ pc = "failed" /\ err.call = r[1])
            => err.attempts = MAX_RETRIES

\* C8: the wrapper never goes round its loop again after a 4xx response.
C8_No4xxRetry == ~(attempt > 0 /\ lastRes \in {"404", "403"})

\* C9: an invocation of full_upload_flow that follows a completed one, with the
\* same metadata, issues no file deletion, upload or metadata update, and does
\* not return normally (it is to end with AlreadyPublishedError).
C9_SecondRunRejected ==
    (client = "api" /\ runs >= 2 /\ prev.how = "done") =>
        /\ issued \cap MutKinds = {}
        /\ pc # "done"

\* C10: an invocation of full_upload_flow that follows one stopped after its
\* uploads and before publish works on the deposition of the stopped run and
\* creates no other.
C10_ResumeSameDraft ==
    (/\ client = "api" /\ runs >= 2
     /\ prev.how \in {"interrupted", "failed"}
     /\ "upload" \in prev.steps /\ "publish" \notin prev.steps
     /\ target # 0) => target = prev.target

-----------------------------------------------------------------------------
(* Properties of the attached files                                          *)

\* the artifact list the run was given
Given(c) == IF c = "downloader" THEN DownloaderArtifacts ELSE artifacts
FileNames(d) == {f.name : f \in deps[d].files}

\* from the first upload on, the target holds the artifacts uploaded so far,
\* one file each, and nothing else; a completed run has uploaded them all
ExactArtifacts ==
    /\ (pc \in {"upload", "download", "put", "publish", "done"} =>
            /\ FileNames(target) = {Given(client)[i] : i \in 1..upIdx}
            /\ Cardinality(deps[target].files) = upIdx)
    /\ (pc = "done" => upIdx = Len(Given(client)))

\* C11: when the uploads of a run start its deposition holds no file, every
\* upload adds the next artifact of the given list, and the deposition a
\* completed run published holds exactly the given artifacts, one file each.
C11_ExactlyGivenArtifacts == client # "main" => ExactArtifacts

\* the part of C11 that is about the programs that empty or replace the
\* deposition before they upload
DeleteThenUploadExact == client \in {"api", "downloader"} => ExactArtifacts

-----------------------------------------------------------------------------
(* Properties of the metadata update                                         *)

\* what a field holds after a merge of the local value onto the remote one
Merged(local, remote) == IF local # NoneVal THEN local ELSE remote

C12_Step ==
    (client = "api" /\ pc = "put" /\ "metadata" \in stepsDone') =>
        /\ deps'[target].doi = Merged(mdoi, deps[target].doi)
        /\ deps'[target].version = Merged(mver, deps[target].version)

\* C12: a successful update_metadata leaves every field of the local metadata
\* with its local value on the remote deposition, and every field the local
\* metadata does not supply with the value it had before the call.
C12_MetadataMerged == [][C12_Step]_vars

\* the frame half of C12: update_metadata changes no field that the local
\* metadata does not supply, and nothing but the metadata of its target
MetadataFrame ==
    [][(client = "api" /\ pc = "put") =>
          /\ (mdoi = NoneVal => deps'[target].doi = deps[target].doi)
          /\ (mver = NoneVal => deps'[target].version = deps[target].version)
          /\ deps'[target].files = deps[target].files
          /\ \A d \in DepIds \ {target} : deps'[d] = deps[d]]_vars

-----------------------------------------------------------------------------
(* Properties of the invocations                                             *)

\* the metadata source lacks a mandatory field (the downloader takes the
\* version from the release, not from the metadata file)
LacksMandatory == mlack # "none" \/ (client # "downloader" /\ mver = NoneVal)

\* C13: a run whose metadata source lacks title, authors, license or version,
\* or has an empty authors list, fails when the metadata is loaded and issues
\* no request.
C13_InvalidMetadataStopsRun ==
    (client # "main" /\ runs > 0 /\ LacksMandatory) =>
        /\ pc = "failed" /\ err.call = "none"
        /\ issued = {}

\* the part of C13 that _parse_citation of ZenodoUploader enforces: a missing
\* key fails the run before any request
ParseCitationStopsRun ==
    (client = "uploader" /\ runs > 0 /\ ~(required_fields \subseteq MetaKeys)) =>
        /\ pc = "failed" /\ err.exc = "ValueError"
        /\ issued = {}

\* the steps a program's workflow consists of
WorkflowSteps(c) == EarlierSteps(c) \cup {"publish"}

\* C14: a run that returned normally completed every step of the workflow,
\* the publish call included.
C14_SuccessMeansAllSteps ==
    pc \in {"done", "skipped"} => WorkflowSteps(client) \subseteq stepsDone

\* the part of C14 that holds: a run that reached the end of the workflow
\* completed every step
DoneMeansAllSteps == pc = "done" => WorkflowSteps(client) \subseteq stepsDone

-----------------------------------------------------------------------------
(* Properties of PublicReleaseDownloader.update_zenodo                       *)

\* C15: the delete request is issued only for a matched deposition; the
\* replacement is created only when no deposition matched or the matched one
\* has been deleted, so the two never exist together; a run that failed after
\* the delete leaves the matched deposition deleted and no published
\* replacement.
C15_DeleteBeforeReplace ==
    client = "downloader" =>
        /\ (matched = 0 => "deldep" \notin issued)
        /\ (matched # 0 /\ (pc = "create" \/ "create" \in issued) =>
                "deldep" \in issued /\ deps[matched].st = "Absent")
        /\ (matched # 0 /\ target # 0 =>
                target # matched /\ deps[matched].st = "Absent")
        /\ (matched # 0 /\ pc = "failed" /\ err.call \in {"create", "download", "upload", "publish"} =>
                /\ deps[matched].st = "Absent"
                /\ (target # 0 => deps[target].st = "Draft"))

C15_Witness ==
    /\ client = "downloader" /\ matched # 0 /\ target # 0
    /\ pc = "failed" /\ err.call = "publish"
    /\ deps[matched].st = "Absent" /\ deps[target].st = "Draft"

====
